---- MODULE Spec2Model ----
(***************************************************************************)
(* Cache-consistency layer of the bitcoin price service                    *)
(* (backend/main.go, CacheService) over a relational store (PostgreSQL,    *)
(* init.sql) and a key-value cache (Redis).                                *)
(*                                                                         *)
(* The state is the table `bitcoins`, the Redis key space, the store's     *)
(* clock and whether the process has finished start-up.  Each CacheService *)
(* method is one action that performs all of its store and cache calls;    *)
(* the outcome of every external call (success or failure) is an input of  *)
(* the action.  History variables record what the last operation did and   *)
(* returned.                                                               *)
(***************************************************************************)
EXTENDS Integers, Sequences, FiniteSets, TLC

(* ------------------------------ bounds --------------------------------- *)
MaxPrice == 2
MaxClock == 1
MaxSteps == 2
MaxCalls == 2

(* Symbols a caller may supply: an ordinary one and "rankings", which is   *)
(* accepted like any other string of at most 10 characters.                *)
Symbols == {"BTC", "rankings"}
Prices == 1..MaxPrice

(* ----------------------- main.go constants ----------------------------- *)
cachePrefix == "bitcoin:"
rankCacheKey == "bitcoin:rankings"

(* One hour, in seconds; NewCacheService copies it into cs.cacheTTL.       *)
defaultCacheTTL == 3600
cacheTTL == defaultCacheTTL

getBitcoinCacheKey(symbol) == cachePrefix \o symbol

Keys == {getBitcoinCacheKey(s) : s \in Symbols} \cup {rankCacheKey}

(* ------------------------- Bitcoin values ------------------------------ *)
(* Rank is a *int: NoRank is the nil pointer (omitted by omitempty).       *)
NoRank == 0

Bitcoin(symbol, price, created, updated, rank) ==
    [symbol |-> symbol, price |-> price, created_at |-> created,
     updated_at |-> updated, rank |-> rank]

(* The zero value of the struct, what `var bitcoin Bitcoin` holds.         *)
ZeroBitcoin == Bitcoin("", 0, 0, 0, NoRank)

(* ----------------------- JSON encoding --------------------------------- *)
(* A cached value is a JSON text; what matters to the decoder is its       *)
(* top-level shape: an object, an array, the literal null, or text that    *)
(* is no JSON at all.  "absent" is a key Redis does not hold.              *)
Absent == [kind |-> "absent", val |-> <<>>]
Garbage == [kind |-> "garbage", val |-> <<>>]
JsonNull == [kind |-> "null", val |-> <<>>]

(* json.Marshal(bitcoin): one object.                                      *)
MarshalBitcoin(b) == [kind |-> "obj", val |-> <<b>>]

(* json.Marshal(bitcoins): a nil slice (no row appended) encodes as null.  *)
MarshalList(bs) ==
    IF bs = <<>> THEN JsonNull ELSE [kind |-> "arr", val |-> bs]

(* json.Unmarshal(data, &bitcoin): an object fills the struct, null        *)
(* leaves the zero value without error, anything else is an error.         *)
UnmarshalBitcoinOk(v) == v.kind \in {"obj", "null"}
UnmarshalBitcoin(v) == IF v.kind = "obj" THEN v.val[1] ELSE ZeroBitcoin

(* json.Unmarshal(data, &bitcoins): an array fills the slice, null leaves  *)
(* it nil without error, anything else is an error.                        *)
UnmarshalListOk(v) == v.kind \in {"arr", "null"}
UnmarshalList(v) == IF v.kind = "arr" THEN v.val ELSE <<>>

(* ------------------------- relational store ---------------------------- *)
(* A row of table bitcoins (init.sql); the table is a set of rows.         *)
Row(symbol, price, created, updated) ==
    Bitcoin(symbol, price, created, updated, NoRank)

RowsOf(tbl, symbol) == {r \in tbl : r.symbol = symbol}

(* The table the process may find at start-up: rows written at time 0, by  *)
(* init.sql or by an earlier run (prices scaled into Prices).              *)
SampleData == {Row("BTC", 2, 0, 0), Row("rankings", 1, 0, 0)}

(* SELECT ... WHERE symbol = $1: the row, or no row (sql.ErrNoRows).       *)
SelectOne(tbl, symbol) ==
    IF RowsOf(tbl, symbol) = {} THEN <<>>
    ELSE <<CHOOSE r \in RowsOf(tbl, symbol) : TRUE>>

(* Variant: the conflict branch replaces the row, created_at included.     *)
Upsert_ResetsCreated(tbl, symbol, price, t) ==
    (tbl \ RowsOf(tbl, symbol)) \cup {Row(symbol, price, t, t)}

(* INSERT ... ON CONFLICT (symbol) DO UPDATE SET price, updated_at         *)
(* RETURNING ...: the resulting table.                                     *)
Upsert(tbl, symbol, price, t) ==
    IF RowsOf(tbl, symbol) = {}
    THEN tbl \cup {Row(symbol, price, t, t)}
    ELSE {IF r.symbol = symbol
          THEN Row(symbol, price, r.created_at, t)
          ELSE r : r \in tbl}

(* DELETE FROM bitcoins WHERE symbol = $1.                                 *)
DeleteRow(tbl, symbol) == tbl \ RowsOf(tbl, symbol)

(* The result orders of SELECT ... ORDER BY price DESC: every arrangement  *)
(* of the rows with non-increasing price (the order of ties is the         *)
(* store's choice).                                                        *)
OrderedByPriceDesc(tbl) ==
    {f \in [1..Cardinality(tbl) -> tbl] :
        /\ \A i, j \in 1..Cardinality(tbl) : i # j => f[i] # f[j]
        /\ \A i, j \in 1..Cardinality(tbl) : i < j => f[i].price >= f[j].price}

(* Variant: the row number counts from 0.                                  *)
WithRowNumber_ZeroBased(rows) ==
    [i \in 1..Len(rows) |->
        Bitcoin(rows[i].symbol, rows[i].price, rows[i].created_at,
                rows[i].updated_at, i - 1)]

(* ROW_NUMBER() OVER (ORDER BY price DESC) on the ordered rows.            *)
WithRowNumber(rows) ==
    [i \in 1..Len(rows) |->
        Bitcoin(rows[i].symbol, rows[i].price, rows[i].created_at,
                rows[i].updated_at, i)]

(* ----------------------------- cache ----------------------------------- *)
(* What Redis holds under a key: a value and the expiration it was set     *)
(* with, in seconds; expiration 0 is a key that never expires (and the     *)
(* expiration of a key Redis does not hold).                               *)
Entry(v, expiration) == [kind |-> v.kind, val |-> v.val, ttl |-> expiration]

Value(e) == [kind |-> e.kind, val |-> e.val]

(* redisClient.Get: the value, or an error (redis.Nil or a failed call).   *)
RedisGetOk(c, key, callOk) == callOk /\ Value(c[key]) # Absent

(* redisClient.Set(ctx, key, value, expiration).                           *)
RedisSet(c, key, v, expiration, callOk) ==
    IF callOk THEN [c EXCEPT ![key] = Entry(v, expiration)] ELSE c

RedisDel(c, key, callOk) ==
    IF callOk THEN [c EXCEPT ![key] = Entry(Absent, 0)] ELSE c

(* ----------------------------- state ----------------------------------- *)
VARIABLES
    store,       \* table bitcoins: a set of rows
    cache,       \* Redis: key -> Entry (value and expiration)
    now,         \* the latest CURRENT_TIMESTAMP the store has used
    started,     \* main has passed PrimeCache and serves requests
    reliable,    \* this run's Redis answers every call (never changes)
    left,        \* number of steps this run may still take
    last,        \* history: the operation that just returned
    http,        \* history: the request just answered and its status
    lastWrite,   \* history: per symbol, a write/delete no read has followed
    rankDirty,   \* history: write/delete since the last ranked listing
    inflight,    \* per request goroutine: the call it runs and where it is
    race,        \* history: who wrote last, and whether calls overlapped
    process      \* where main is: "ping", "up" (connected) or "exited"

vars == <<store, cache, now, started, reliable, left, last, http,
          lastWrite, rankDirty, inflight, race, process>>

(* One external call made by an operation, in order.                       *)
Call(what, key, ok) == [what |-> what, key |-> key, ok |-> ok]

NoOp == [op |-> "none", symbol |-> "", price |-> 0, result |-> <<>>,
         err |-> FALSE, hit |-> FALSE, corrupt |-> FALSE, calls |-> <<>>,
         ctx |-> "none", count |-> 0,
         pending |-> [kind |-> "none", price |-> 0]]

(* What an operation hands back: the returned Records (empty for nil),     *)
(* whether an error was returned, whether the result came from the cache,  *)
(* whether a cached value failed to decode, and the calls it made.         *)
Outcome(tbl, c, result, err, hit, corrupt, calls) ==
    [store |-> tbl, cache |-> c, result |-> result, err |-> err,
     hit |-> hit, corrupt |-> corrupt, calls |-> calls, count |-> 0]

(* A successful write ("set") or delete ("del") of a symbol that no        *)
(* GetBitcoin of that symbol has followed yet, and the price written; or   *)
(* ("unknown") a GetBitcoin that found no row of the symbol, with no write *)
(* of the symbol since.                                                    *)
NoWrite == [kind |-> "none", price |-> 0]

Written(kind, price) == [kind |-> kind, price |-> price]

(* `ctx` is, for a ranked listing, whether a write or delete returned      *)
(* success since the previous listing: "ok" when the ranking delete of one *)
(* of them succeeded, "failed" when none did; "fresh" when there was none  *)
(* and the previous listing left a ranking entry that has not expired.     *)
(* `pending` is, for a GetBitcoin, the write it is the first read after.   *)
Returned(op, symbol, price, out, ctx, pending) ==
    [op |-> op, symbol |-> symbol, price |-> price, result |-> out.result,
     err |-> out.err, hit |-> out.hit, corrupt |-> out.corrupt,
     calls |-> out.calls, ctx |-> ctx, count |-> out.count,
     pending |-> pending]

CacheCallFailed(calls) ==
    \E i \in 1..Len(calls) :
        calls[i].what \in {"redis.get", "redis.set", "redis.del"}
        /\ ~calls[i].ok

(* ------------------------- CacheService -------------------------------- *)
(* Variant: a hit writes the entry back, which gives it a fresh TTL.       *)
GetBitcoinRun_HitRewrites(tbl, c, symbol, getOk, dbOk, setOk) ==
    LET cacheKey == getBitcoinCacheKey(symbol)
        got == RedisGetOk(c, cacheKey, getOk)
        c1 == Call("redis.get", cacheKey, getOk)
        row == SelectOne(tbl, symbol)
    IN  IF got /\ UnmarshalBitcoinOk(c[cacheKey])
        THEN Outcome(tbl, c, <<UnmarshalBitcoin(c[cacheKey])>>, FALSE, TRUE,
                     FALSE, <<c1, Call("redis.set", cacheKey, TRUE)>>)
        ELSE IF ~dbOk
        THEN Outcome(tbl, c, <<>>, TRUE, FALSE, got,
                     <<c1, Call("db.select", symbol, FALSE)>>)
        ELSE IF row = <<>>
        THEN Outcome(tbl, c, <<>>, FALSE, FALSE, got,
                     <<c1, Call("db.select", symbol, TRUE)>>)
        ELSE Outcome(tbl,
                     RedisSet(c, cacheKey, MarshalBitcoin(row[1]), cacheTTL,
                              setOk),
                     row, FALSE, FALSE, got,
                     <<c1, Call("db.select", symbol, TRUE),
                       Call("redis.set", cacheKey, setOk)>>)

(* Variant: a cached value that does not decode is returned as an error.   *)
GetBitcoinRun_FailsOnCorrupt(tbl, c, symbol, getOk, dbOk, setOk) ==
    LET cacheKey == getBitcoinCacheKey(symbol)
        got == RedisGetOk(c, cacheKey, getOk)
        c1 == Call("redis.get", cacheKey, getOk)
        row == SelectOne(tbl, symbol)
    IN  IF got /\ UnmarshalBitcoinOk(c[cacheKey])
        THEN Outcome(tbl, c, <<UnmarshalBitcoin(c[cacheKey])>>, FALSE, TRUE,
                     FALSE, <<c1>>)
        ELSE IF got \/ ~dbOk
        THEN Outcome(tbl, c, <<>>, TRUE, FALSE, got,
                     <<c1, Call("db.select", symbol, dbOk)>>)
        ELSE IF row = <<>>
        THEN Outcome(tbl, c, <<>>, FALSE, FALSE, got,
                     <<c1, Call("db.select", symbol, TRUE)>>)
        ELSE Outcome(tbl,
                     RedisSet(c, cacheKey, MarshalBitcoin(row[1]), cacheTTL,
                              setOk),
                     row, FALSE, FALSE, got,
                     <<c1, Call("db.select", symbol, TRUE),
                       Call("redis.set", cacheKey, setOk)>>)

(* Variant: an entry that does not decode is deleted when the table has no *)
(* row to replace it with.                                                 *)
GetBitcoinRun_DeletesCorrupt(tbl, c, symbol, getOk, dbOk, setOk) ==
    LET cacheKey == getBitcoinCacheKey(symbol)
        got == RedisGetOk(c, cacheKey, getOk)
        c1 == Call("redis.get", cacheKey, getOk)
        row == SelectOne(tbl, symbol)
    IN  IF got /\ UnmarshalBitcoinOk(c[cacheKey])
        THEN Outcome(tbl, c, <<UnmarshalBitcoin(c[cacheKey])>>, FALSE, TRUE,
                     FALSE, <<c1>>)
        ELSE IF ~dbOk
        THEN Outcome(tbl, c, <<>>, TRUE, FALSE, got,
                     <<c1, Call("db.select", symbol, FALSE)>>)
        ELSE IF row = <<>>
        THEN Outcome(tbl, IF got THEN RedisDel(c, cacheKey, TRUE) ELSE c,
                     <<>>, FALSE, FALSE, got,
                     <<c1, Call("db.select", symbol, TRUE)>>)
        ELSE Outcome(tbl,
                     RedisSet(c, cacheKey, MarshalBitcoin(row[1]), cacheTTL,
                              setOk),
                     row, FALSE, FALSE, got,
                     <<c1, Call("db.select", symbol, TRUE),
                       Call("redis.set", cacheKey, setOk)>>)

(* Variant: the populate step passes no expiration, so the key is kept     *)
(* until it is deleted.                                                    *)
GetBitcoinRun_NoExpiry(tbl, c, symbol, getOk, dbOk, setOk) ==
    LET cacheKey == getBitcoinCacheKey(symbol)
        got == RedisGetOk(c, cacheKey, getOk)
        c1 == Call("redis.get", cacheKey, getOk)
        row == SelectOne(tbl, symbol)
    IN  IF got /\ UnmarshalBitcoinOk(c[cacheKey])
        THEN Outcome(tbl, c, <<UnmarshalBitcoin(c[cacheKey])>>, FALSE, TRUE,
                     FALSE, <<c1>>)
        ELSE IF ~dbOk
        THEN Outcome(tbl, c, <<>>, TRUE, FALSE, got,
                     <<c1, Call("db.select", symbol, FALSE)>>)
        ELSE IF row = <<>>
        THEN Outcome(tbl, c, <<>>, FALSE, FALSE, got,
                     <<c1, Call("db.select", symbol, TRUE)>>)
        ELSE Outcome(tbl,
                     RedisSet(c, cacheKey, MarshalBitcoin(row[1]), 0, setOk),
                     row, FALSE, FALSE, got,
                     <<c1, Call("db.select", symbol, TRUE),
                       Call("redis.set", cacheKey, setOk)>>)

(* GetBitcoin: cache first, then the store, then populate the cache.       *)
GetBitcoinRun(tbl, c, symbol, getOk, dbOk, setOk) ==
    LET cacheKey == getBitcoinCacheKey(symbol)
        got == RedisGetOk(c, cacheKey, getOk)
        c1 == Call("redis.get", cacheKey, getOk)
        row == SelectOne(tbl, symbol)
    IN  IF got /\ UnmarshalBitcoinOk(c[cacheKey])
        THEN Outcome(tbl, c, <<UnmarshalBitcoin(c[cacheKey])>>, FALSE, TRUE,
                     FALSE, <<c1>>)
        ELSE IF ~dbOk
        THEN Outcome(tbl, c, <<>>, TRUE, FALSE, got,
                     <<c1, Call("db.select", symbol, FALSE)>>)
        ELSE IF row = <<>>
        THEN Outcome(tbl, c, <<>>, FALSE, FALSE, got,
                     <<c1, Call("db.select", symbol, TRUE)>>)
        ELSE Outcome(tbl,
                     RedisSet(c, cacheKey, MarshalBitcoin(row[1]), cacheTTL,
                              setOk),
                     row, FALSE, FALSE, got,
                     <<c1, Call("db.select", symbol, TRUE),
                       Call("redis.set", cacheKey, setOk)>>)

(* Variant: an item entry that could not be rewritten is dropped.          *)
SetBitcoinRun_DropsOnSetFailure(tbl, c, symbol, price, t, dbOk, setOk, delOk) ==
    LET tbl2 == Upsert(tbl, symbol, price, t)
        rec == SelectOne(tbl2, symbol)
        cacheKey == getBitcoinCacheKey(symbol)
        c2 == IF setOk
              THEN RedisSet(c, cacheKey, MarshalBitcoin(rec[1]), cacheTTL,
                            TRUE)
              ELSE [c EXCEPT ![cacheKey] = Entry(Absent, 0)]
        c3 == RedisDel(c2, rankCacheKey, delOk)
    IN  IF ~dbOk
        THEN Outcome(tbl, c, <<>>, TRUE, FALSE, FALSE,
                     <<Call("db.upsert", symbol, FALSE)>>)
        ELSE Outcome(tbl2, c3, rec, FALSE, FALSE, FALSE,
                     <<Call("db.upsert", symbol, TRUE),
                       Call("redis.set", cacheKey, setOk),
                       Call("redis.del", rankCacheKey, delOk)>>)

(* Variant: the ranking entry is invalidated only after the item entry was *)
(* written.                                                                *)
SetBitcoinRun_DelAfterSetOnly(tbl, c, symbol, price, t, dbOk, setOk, delOk) ==
    LET tbl2 == Upsert(tbl, symbol, price, t)
        rec == SelectOne(tbl2, symbol)
        cacheKey == getBitcoinCacheKey(symbol)
        c2 == RedisSet(c, cacheKey, MarshalBitcoin(rec[1]), cacheTTL, setOk)
        c3 == RedisDel(c2, rankCacheKey, delOk)
    IN  IF ~dbOk
        THEN Outcome(tbl, c, <<>>, TRUE, FALSE, FALSE,
                     <<Call("db.upsert", symbol, FALSE)>>)
        ELSE IF ~setOk
        THEN Outcome(tbl2, c2, rec, FALSE, FALSE, FALSE,
                     <<Call("db.upsert", symbol, TRUE),
                       Call("redis.set", cacheKey, FALSE)>>)
        ELSE Outcome(tbl2, c3, rec, FALSE, FALSE, FALSE,
                     <<Call("db.upsert", symbol, TRUE),
                       Call("redis.set", cacheKey, setOk),
                       Call("redis.del", rankCacheKey, delOk)>>)

(* Variant: write-back, the item entry is written before the upsert and    *)
(* stays when the upsert fails.                                            *)
SetBitcoinRun_WriteBack(tbl, c, symbol, price, t, dbOk, setOk, delOk) ==
    LET tbl2 == Upsert(tbl, symbol, price, t)
        rec == SelectOne(tbl2, symbol)
        cacheKey == getBitcoinCacheKey(symbol)
        c2 == RedisSet(c, cacheKey, MarshalBitcoin(rec[1]), cacheTTL, TRUE)
        c3 == RedisDel(c2, rankCacheKey, delOk)
    IN  IF ~dbOk
        THEN Outcome(tbl, c2, <<>>, TRUE, FALSE, FALSE,
                     <<Call("db.upsert", symbol, FALSE)>>)
        ELSE Outcome(tbl2, c3, rec, FALSE, FALSE, FALSE,
                     <<Call("db.upsert", symbol, TRUE),
                       Call("redis.set", cacheKey, setOk),
                       Call("redis.del", rankCacheKey, delOk)>>)

(* Variant: the upsert's RETURNING clause also yields a row number, which  *)
(* is scanned into Rank.                                                   *)
SetBitcoinRun_ReturnsRank(tbl, c, symbol, price, t, dbOk, setOk, delOk) ==
    LET tbl2 == Upsert(tbl, symbol, price, t)
        rec == WithRowNumber(SelectOne(tbl2, symbol))
        cacheKey == getBitcoinCacheKey(symbol)
        c2 == RedisSet(c, cacheKey, MarshalBitcoin(rec[1]), cacheTTL, setOk)
        c3 == RedisDel(c2, rankCacheKey, delOk)
    IN  IF ~dbOk
        THEN Outcome(tbl, c, <<>>, TRUE, FALSE, FALSE,
                     <<Call("db.upsert", symbol, FALSE)>>)
        ELSE Outcome(tbl2, c3, rec, FALSE, FALSE, FALSE,
                     <<Call("db.upsert", symbol, TRUE),
                       Call("redis.set", cacheKey, setOk),
                       Call("redis.del", rankCacheKey, delOk)>>)

(* Variant: the item entry is written from the row read before the upsert. *)
SetBitcoinRun_CachesOldRow(tbl, c, symbol, price, t, dbOk, setOk, delOk) ==
    LET tbl2 == Upsert(tbl, symbol, price, t)
        rec == SelectOne(tbl2, symbol)
        old == IF SelectOne(tbl, symbol) = <<>> THEN rec
               ELSE SelectOne(tbl, symbol)
        cacheKey == getBitcoinCacheKey(symbol)
        c2 == RedisSet(c, cacheKey, MarshalBitcoin(old[1]), cacheTTL, setOk)
        c3 == RedisDel(c2, rankCacheKey, delOk)
    IN  IF ~dbOk
        THEN Outcome(tbl, c, <<>>, TRUE, FALSE, FALSE,
                     <<Call("db.upsert", symbol, FALSE)>>)
        ELSE Outcome(tbl2, c3, rec, FALSE, FALSE, FALSE,
                     <<Call("db.upsert", symbol, TRUE),
                       Call("redis.set", cacheKey, setOk),
                       Call("redis.del", rankCacheKey, delOk)>>)

(* Variant: the ranking entry is not deleted after a write.                *)
SetBitcoinRun_NoInvalidate(tbl, c, symbol, price, t, dbOk, setOk, delOk) ==
    LET tbl2 == Upsert(tbl, symbol, price, t)
        rec == SelectOne(tbl2, symbol)
        cacheKey == getBitcoinCacheKey(symbol)
        c2 == RedisSet(c, cacheKey, MarshalBitcoin(rec[1]), cacheTTL, setOk)
    IN  IF ~dbOk
        THEN Outcome(tbl, c, <<>>, TRUE, FALSE, FALSE,
                     <<Call("db.upsert", symbol, FALSE)>>)
        ELSE Outcome(tbl2, c2, rec, FALSE, FALSE, FALSE,
                     <<Call("db.upsert", symbol, TRUE),
                       Call("redis.set", cacheKey, setOk),
                       Call("redis.del", rankCacheKey, delOk)>>)

(* Variant: the upsert is skipped when the item entry already holds a     *)
(* Record of the symbol with the price to be written.                      *)
SetBitcoinRun_SkipsUnchanged(tbl, c, symbol, price, t, dbOk, setOk, delOk) ==
    LET tbl2 == Upsert(tbl, symbol, price, t)
        rec == SelectOne(tbl2, symbol)
        cacheKey == getBitcoinCacheKey(symbol)
        held == Value(c[cacheKey])
        c2 == RedisSet(c, cacheKey, MarshalBitcoin(rec[1]), cacheTTL, setOk)
        c3 == RedisDel(c2, rankCacheKey, delOk)
    IN  IF ~dbOk
        THEN Outcome(tbl, c, <<>>, TRUE, FALSE, FALSE,
                     <<Call("db.upsert", symbol, FALSE)>>)
        ELSE IF held.kind = "obj" /\ held.val[1].symbol = symbol
                                  /\ held.val[1].price = price
        THEN Outcome(tbl, c3, held.val, FALSE, FALSE, FALSE,
                     <<Call("db.upsert", symbol, TRUE),
                       Call("redis.set", cacheKey, setOk),
                       Call("redis.del", rankCacheKey, delOk)>>)
        ELSE Outcome(tbl2, c3, rec, FALSE, FALSE, FALSE,
                     <<Call("db.upsert", symbol, TRUE),
                       Call("redis.set", cacheKey, setOk),
                       Call("redis.del", rankCacheKey, delOk)>>)

(* SetBitcoin: upsert, then write the item entry, then delete the ranking  *)
(* entry; the outcome of neither cache call is returned.                   *)
SetBitcoinRun(tbl, c, symbol, price, t, dbOk, setOk, delOk) ==
    LET tbl2 == Upsert(tbl, symbol, price, t)
        rec == SelectOne(tbl2, symbol)
        cacheKey == getBitcoinCacheKey(symbol)
        c2 == RedisSet(c, cacheKey, MarshalBitcoin(rec[1]), cacheTTL, setOk)
        c3 == RedisDel(c2, rankCacheKey, delOk)
    IN  IF ~dbOk
        THEN Outcome(tbl, c, <<>>, TRUE, FALSE, FALSE,
                     <<Call("db.upsert", symbol, FALSE)>>)
        ELSE Outcome(tbl2, c3, rec, FALSE, FALSE, FALSE,
                     <<Call("db.upsert", symbol, TRUE),
                       Call("redis.set", cacheKey, setOk),
                       Call("redis.del", rankCacheKey, delOk)>>)

(* Variant: a failed delete of the item entry undoes the delete of the row *)
(* and is returned as an error.                                            *)
DeleteBitcoinRun_RollsBack(tbl, c, symbol, dbOk, delItemOk, delRankOk) ==
    LET row == SelectOne(tbl, symbol)
        cacheKey == getBitcoinCacheKey(symbol)
        c2 == RedisDel(c, cacheKey, delItemOk)
        c3 == RedisDel(c2, rankCacheKey, delRankOk)
    IN  IF ~dbOk
        THEN Outcome(tbl, c, <<>>, TRUE, FALSE, FALSE,
                     <<Call("db.delete", symbol, FALSE)>>)
        ELSE IF row = <<>>
        THEN Outcome(tbl, c, <<>>, FALSE, FALSE, FALSE,
                     <<Call("db.delete", symbol, TRUE)>>)
        ELSE IF ~delItemOk
        THEN Outcome(tbl, c, <<>>, TRUE, FALSE, FALSE,
                     <<Call("db.delete", symbol, TRUE),
                       Call("redis.del", cacheKey, FALSE),
                       Call("redis.del", rankCacheKey, delRankOk)>>)
        ELSE Outcome(DeleteRow(tbl, symbol), c3, row, FALSE, FALSE, FALSE,
                     <<Call("db.delete", symbol, TRUE),
                       Call("redis.del", cacheKey, delItemOk),
                       Call("redis.del", rankCacheKey, delRankOk)>>)

(* Variant: the cache keys are deleted before sql.ErrNoRows is looked at.  *)
DeleteBitcoinRun_NoEarlyReturn(tbl, c, symbol, dbOk, delItemOk, delRankOk) ==
    LET row == SelectOne(tbl, symbol)
        cacheKey == getBitcoinCacheKey(symbol)
        c2 == RedisDel(c, cacheKey, delItemOk)
        c3 == RedisDel(c2, rankCacheKey, delRankOk)
    IN  IF ~dbOk
        THEN Outcome(tbl, c, <<>>, TRUE, FALSE, FALSE,
                     <<Call("db.delete", symbol, FALSE)>>)
        ELSE Outcome(DeleteRow(tbl, symbol), c3, row, FALSE, FALSE, FALSE,
                     <<Call("db.delete", symbol, TRUE),
                       Call("redis.del", cacheKey, delItemOk),
                       Call("redis.del", rankCacheKey, delRankOk)>>)

(* Variant: a failed delete of the item entry is tried once more.          *)
DeleteBitcoinRun_RetriesItemDelete(tbl, c, symbol, dbOk, delItemOk, delRankOk) ==
    LET row == SelectOne(tbl, symbol)
        cacheKey == getBitcoinCacheKey(symbol)
        c2 == RedisDel(c, cacheKey, TRUE)
        c3 == RedisDel(c2, rankCacheKey, delRankOk)
    IN  IF ~dbOk
        THEN Outcome(tbl, c, <<>>, TRUE, FALSE, FALSE,
                     <<Call("db.delete", symbol, FALSE)>>)
        ELSE IF row = <<>>
        THEN Outcome(tbl, c, <<>>, FALSE, FALSE, FALSE,
                     <<Call("db.delete", symbol, TRUE)>>)
        ELSE IF delItemOk
        THEN Outcome(DeleteRow(tbl, symbol), c3, row, FALSE, FALSE, FALSE,
                     <<Call("db.delete", symbol, TRUE),
                       Call("redis.del", cacheKey, TRUE),
                       Call("redis.del", rankCacheKey, delRankOk)>>)
        ELSE Outcome(DeleteRow(tbl, symbol), c3, row, FALSE, FALSE, FALSE,
                     <<Call("db.delete", symbol, TRUE),
                       Call("redis.del", cacheKey, FALSE),
                       Call("redis.del", cacheKey, TRUE),
                       Call("redis.del", rankCacheKey, delRankOk)>>)

(* DeleteBitcoin: delete-returning, then delete the item entry and the     *)
(* ranking entry; the outcome of neither cache call is looked at.          *)
DeleteBitcoinRun(tbl, c, symbol, dbOk, delItemOk, delRankOk) ==
    LET row == SelectOne(tbl, symbol)
        cacheKey == getBitcoinCacheKey(symbol)
        c2 == RedisDel(c, cacheKey, delItemOk)
        c3 == RedisDel(c2, rankCacheKey, delRankOk)
    IN  IF ~dbOk
        THEN Outcome(tbl, c, <<>>, TRUE, FALSE, FALSE,
                     <<Call("db.delete", symbol, FALSE)>>)
        ELSE IF row = <<>>
        THEN Outcome(tbl, c, <<>>, FALSE, FALSE, FALSE,
                     <<Call("db.delete", symbol, TRUE)>>)
        ELSE Outcome(DeleteRow(tbl, symbol), c3, row, FALSE, FALSE, FALSE,
                     <<Call("db.delete", symbol, TRUE),
                       Call("redis.del", cacheKey, delItemOk),
                       Call("redis.del", rankCacheKey, delRankOk)>>)

(* GetBitcoinsRanked: cache first; on a miss the ranked query.  `rows` is  *)
(* the result order the store chose and `n` the number of rows rows.Next() *)
(* delivered before it returned false: all of them, or fewer when the      *)
(* iteration broke off (rows.Err() is never looked at).                    *)
GetBitcoinsRankedRun(tbl, c, rows, n, getOk, dbOk, scanOk, setOk) ==
    LET got == RedisGetOk(c, rankCacheKey, getOk)
        c1 == Call("redis.get", rankCacheKey, getOk)
        bitcoins == SubSeq(WithRowNumber(rows), 1, n)
    IN  IF got /\ UnmarshalListOk(c[rankCacheKey])
        THEN Outcome(tbl, c, UnmarshalList(c[rankCacheKey]), FALSE, TRUE,
                     FALSE, <<c1>>)
        ELSE IF ~dbOk \/ (n > 0 /\ ~scanOk)
        THEN Outcome(tbl, c, <<>>, TRUE, FALSE, got,
                     <<c1, Call("db.selectall", "", FALSE)>>)
        ELSE Outcome(tbl,
                     RedisSet(c, rankCacheKey, MarshalList(bitcoins),
                              cacheTTL, setOk),
                     bitcoins, FALSE, FALSE, got,
                     <<c1, Call("db.selectall", "", n = Len(rows)),
                       Call("redis.set", rankCacheKey, setOk)>>)

(* PrimeCache: the loop body for rows i..n of the result.  how[i] says     *)
(* what happens to row i: "scan" (rows.Scan fails), "set" (the cache write *)
(* fails) or "ok"; a failed row is skipped and the loop goes on.           *)
RECURSIVE PrimeRows(_, _, _, _, _)
PrimeRows(acc, rows, how, i, n) ==
    IF i > n THEN acc
    ELSE LET b == rows[i]
             cacheKey == getBitcoinCacheKey(b.symbol)
         IN  IF how[i] = "scan"
             THEN PrimeRows(
                    [acc EXCEPT
                       !.calls = Append(@, Call("rows.scan", b.symbol,
                                                FALSE))],
                    rows, how, i + 1, n)
             ELSE PrimeRows(
                    [acc EXCEPT
                       !.cache = RedisSet(@, cacheKey, MarshalBitcoin(b),
                                          cacheTTL, how[i] = "ok"),
                       !.calls = Append(@, Call("redis.set", cacheKey,
                                                how[i] = "ok")),
                       !.count = IF how[i] = "ok" THEN @ + 1 ELSE @],
                    rows, how, i + 1, n)

(* Variant: count is incremented for every row delivered, before the row   *)
(* is scanned and cached.                                                  *)
PrimeCacheRun_CountsRows(tbl, c, rows, n, how, dbOk) ==
    IF ~dbOk
    THEN Outcome(tbl, c, <<>>, TRUE, FALSE, FALSE,
                 <<Call("db.selectall", "", FALSE)>>)
    ELSE [PrimeRows(Outcome(tbl, c, <<>>, FALSE, FALSE, FALSE,
                            <<Call("db.selectall", "", n = Len(rows))>>),
                    rows, how, 1, n)
          EXCEPT !.count = n]

(* PrimeCache: query all rows, cache each one; only a failed query is      *)
(* returned as an error.  `n` is the number of rows rows.Next() delivered. *)
PrimeCacheRun(tbl, c, rows, n, how, dbOk) ==
    IF ~dbOk
    THEN Outcome(tbl, c, <<>>, TRUE, FALSE, FALSE,
                 <<Call("db.selectall", "", FALSE)>>)
    ELSE PrimeRows(Outcome(tbl, c, <<>>, FALSE, FALSE, FALSE,
                           <<Call("db.selectall", "", n = Len(rows))>>),
                   rows, how, 1, n)

(* --------------------------- request layer ----------------------------- *)
(* A field of a JSON request body: an integer, a string, or not there.     *)
JsonInt(n) == [kind |-> "int", str |-> "", int |-> n]
JsonString(x) == [kind |-> "string", str |-> x, int |-> 0]
NoField == [kind |-> "missing", str |-> "", int |-> 0]

(* The symbols a request may carry: in the body of a POST (or not), in the *)
(* path of the other routes.                                               *)
SymbolFields == {JsonString(x) : x \in Symbols} \cup {NoField}

(* The price fields a body may carry: an integer, zero included, a value   *)
(* that is no integer, or none.                                            *)
PriceFields ==
    {JsonInt(p) : p \in 0..MaxPrice} \cup {JsonString("x"), NoField}

(* c.ShouldBindJSON(&req) into `Symbol string` and `Price int`, both       *)
(* tagged binding:"required": a field of the wrong type fails the decode,  *)
(* and `required` fails on the zero value of the type, which is what a     *)
(* missing field leaves - and also what "" and 0 are.                      *)
BoundString(f) == IF f.kind = "string" THEN f.str ELSE ""
BoundInt(f) == IF f.kind = "int" THEN f.int ELSE 0

ShouldBindJSON(method, symbol, price) ==
    /\ price.kind \in {"int", "missing"}
    /\ BoundInt(price) # 0
    /\ method = "POST"
          => /\ symbol.kind \in {"string", "missing"}
             /\ BoundString(symbol) # ""

(* Variant: a handler that answers 200 with an empty body when the         *)
(* operation returned nil.                                                 *)
StatusOfRecord_NilIsOk(out) == IF out.err THEN 500 ELSE 200

(* The status the route handlers answer with.                              *)
StatusOfRecord(out) ==
    IF out.err THEN 500 ELSE IF out.result = <<>> THEN 404 ELSE 200

StatusOfWrite(method, out) ==
    IF out.err THEN 500 ELSE IF method = "POST" THEN 201 ELSE 200

StatusOfList(out) == IF out.err THEN 500 ELSE 200

NoRequest == [method |-> "", symbol |-> NoField, price |-> NoField,
              status |-> 0]

Answered(method, symbol, price, status) ==
    [method |-> method, symbol |-> symbol, price |-> price,
     status |-> status]

(* ------------------------------- start --------------------------------- *)
(* The goroutines that serve requests at the same time, and what one holds *)
(* while it runs a call: the operation, its arguments, the statement it    *)
(* has reached, the row the table held before its upsert (`old`), the row  *)
(* it got from the store or the cache (`rec`) and where it got it from.    *)
Procs == 1..MaxCalls

Idle == [op |-> "none", symbol |-> "", price |-> 0, pc |-> "idle",
         old |-> <<>>, rec |-> <<>>, via |-> ""]

NoRace == [overlap |-> FALSE,
           upsert |-> [s \in Symbols |-> 0],
           write |-> [s \in Symbols |-> 0]]

Cold == [k \in Keys |-> Entry(Absent, 0)]

(* Redis outlives the process: the cache an earlier run of the service     *)
(* left behind for the same table, after its PrimeCache and one ranked     *)
(* listing.                                                                *)
WarmCache(tbl, rows) ==
    LET primed == PrimeCacheRun(tbl, Cold, rows, Len(rows),
                                [i \in 1..Len(rows) |-> "ok"], TRUE)
    IN  GetBitcoinsRankedRun(tbl, primed.cache, rows, Len(rows),
                             TRUE, TRUE, TRUE, TRUE).cache

(* The state in which main reaches PrimeCache.                             *)
Boot(rel, n) ==
    /\ store \in SUBSET SampleData
    /\ cache \in {Cold} \cup {WarmCache(store, rows) :
                                 rows \in OrderedByPriceDesc(store)}
    /\ now = 0
    /\ started = FALSE
    /\ reliable = rel
    /\ left = n
    /\ last = NoOp
    /\ http = NoRequest
    /\ lastWrite = [s \in Symbols |-> NoWrite]
    /\ rankDirty = "none"
    /\ inflight = [p \in Procs |-> Idle]
    /\ race = NoRace
    /\ process = "up"

Init == Boot(FALSE, MaxSteps)

(* A run one step shorter, for what a single request is answered with.     *)
InitHttp == Boot(FALSE, MaxSteps - 1)

(* A run one step longer in which no call to Redis fails.                  *)
InitCacheUp == Boot(TRUE, MaxSteps + 1)

(* ------------------------------ actions -------------------------------- *)
(* The outcomes a cache call can have in this run.                         *)
CacheOutcomes == IF reliable THEN {TRUE} ELSE BOOLEAN

(* The outcome flag of a call that the operation does not reach is fixed   *)
(* to TRUE, so that every choice of inputs is a different run.             *)
Reached(calls, what) == \E i \in 1..Len(calls) : calls[i].what = what

NthCalled(calls, what, k) ==
    Cardinality({i \in 1..Len(calls) : calls[i].what = what}) >= k

Dirtied(dirty, delOk) ==
    IF delOk \/ dirty = "ok" THEN "ok" ELSE "failed"

Finish(out, ret, writes, dirty) ==
    /\ store' = out.store
    /\ cache' = out.cache
    /\ last' = ret
    /\ lastWrite' = writes
    /\ rankDirty' = dirty
    /\ UNCHANGED <<reliable, inflight, race, process>>

(* Variant: main treats the error of PrimeCache as fatal (log.Fatalf) and  *)
(* never serves.                                                           *)
PrimeCache_ExitsOnError ==
    /\ process = "up"
    /\ ~started
    /\ \E rows \in OrderedByPriceDesc(store), dbOk \in BOOLEAN :
       \E n \in 0..Len(rows),
          how \in [1..Len(rows) ->
                      IF reliable THEN {"ok", "scan"}
                      ELSE {"ok", "scan", "set"}] :
          LET out == PrimeCacheRun(store, cache, rows, n, how, dbOk)
          IN  /\ ~dbOk => n = Len(rows)
              /\ \A i \in 1..Len(rows) : (~dbOk \/ i > n) => how[i] = "ok"
              /\ Finish(out, Returned("prime", "", 0, out, "none", NoWrite),
                        lastWrite, rankDirty)
    /\ started' = ~last'.err
    /\ UNCHANGED <<now, left, http>>

(* main: PrimeCache runs once, before the router serves; its error is only *)
(* logged.                                                                 *)
PrimeCache ==
    /\ process = "up"
    /\ ~started
    /\ \E rows \in OrderedByPriceDesc(store), dbOk \in BOOLEAN :
       \E n \in 0..Len(rows),
          how \in [1..Len(rows) ->
                      IF reliable THEN {"ok", "scan"}
                      ELSE {"ok", "scan", "set"}] :
          LET out == PrimeCacheRun(store, cache, rows, n, how, dbOk)
          IN  /\ ~dbOk => n = Len(rows)
              /\ \A i \in 1..Len(rows) : (~dbOk \/ i > n) => how[i] = "ok"
              /\ Finish(out, Returned("prime", "", 0, out, "none", NoWrite),
                        lastWrite, rankDirty)
    /\ started' = TRUE
    /\ UNCHANGED <<now, left, http>>

GetBitcoin(symbol) ==
    /\ started
    /\ left > 0
    /\ \E getOk, setOk \in CacheOutcomes, dbOk \in BOOLEAN :
          LET out == GetBitcoinRun(store, cache, symbol, getOk, dbOk, setOk)
          IN  /\ ~Reached(out.calls, "db.select") => dbOk
              /\ ~Reached(out.calls, "redis.set") => setOk
              /\ Finish(out,
                        Returned("get", symbol, 0, out, "none",
                                 lastWrite[symbol]),
                        [lastWrite EXCEPT
                           ![symbol] =
                              IF ~out.err /\ ~out.hit /\ out.result = <<>>
                              THEN Written("unknown", 0)
                              ELSE NoWrite],
                        rankDirty)
              /\ http' = Answered("GET", JsonString(symbol), NoField,
                                  StatusOfRecord(out))
    /\ left' = left - 1
    /\ UNCHANGED <<now, started>>

(* POST /api/bitcoins (symbol in the body) and PUT /api/bitcoins/:symbol    *)
(* (symbol in the path): a body that does not bind is answered with 400    *)
(* before CacheService is called.                                          *)
SetBitcoin(method, symbolField, priceField) ==
    /\ started
    /\ left > 0
    /\ method = "PUT" => symbolField.kind = "string"
    /\ IF ~ShouldBindJSON(method, symbolField, priceField)
       THEN /\ http' = Answered(method, symbolField, priceField, 400)
            /\ last' = NoOp
            /\ UNCHANGED <<store, cache, now, reliable, lastWrite,
                           rankDirty, inflight, race, process>>
       ELSE LET symbol == BoundString(symbolField)
                price == BoundInt(priceField)
            IN  \E setOk, delOk \in CacheOutcomes, dbOk \in BOOLEAN,
                   t \in now..(now + 1) :
                   LET out == SetBitcoinRun(store, cache, symbol, price, t,
                                            dbOk, setOk, delOk)
                   IN  /\ t <= MaxClock
                       /\ ~dbOk => t = now
                       /\ ~Reached(out.calls, "redis.set") => setOk
                       /\ ~Reached(out.calls, "redis.del") => delOk
                       /\ now' = t
                       /\ Finish(out,
                                 Returned("set", symbol, price, out, "none",
                                          NoWrite),
                                 IF out.err THEN lastWrite
                                 ELSE [lastWrite EXCEPT
                                         ![symbol] = Written("set", price)],
                                 IF out.err THEN rankDirty
                                 ELSE Dirtied(rankDirty, delOk))
                       /\ http' = Answered(method, symbolField, priceField,
                                           StatusOfWrite(method, out))
    /\ left' = left - 1
    /\ UNCHANGED started

GetBitcoinsRanked ==
    /\ started
    /\ left > 0
    /\ \E rows \in OrderedByPriceDesc(store),
          getOk, setOk \in CacheOutcomes, dbOk, scanOk \in BOOLEAN :
       \E n \in 0..Len(rows) :
          LET out == GetBitcoinsRankedRun(store, cache, rows, n,
                                          getOk, dbOk, scanOk, setOk)
          IN  /\ ~Reached(out.calls, "db.selectall") => dbOk
              /\ ~dbOk => n = Len(rows)
              /\ (~dbOk \/ n = 0) => scanOk
              /\ ~scanOk => n = 1
              /\ ~Reached(out.calls, "redis.set") => setOk
              /\ Finish(out,
                        Returned("ranked", "", 0, out, rankDirty, NoWrite),
                        lastWrite,
                        IF ~out.err /\ (out.hit \/ setOk)
                        THEN "fresh" ELSE "none")
              /\ http' = Answered("GET", NoField, NoField, StatusOfList(out))
    /\ left' = left - 1
    /\ UNCHANGED <<now, started>>

DeleteBitcoin(symbol) ==
    /\ started
    /\ left > 0
    /\ \E delItemOk, delRankOk \in CacheOutcomes, dbOk \in BOOLEAN :
          LET out == DeleteBitcoinRun(store, cache, symbol,
                                      dbOk, delItemOk, delRankOk)
              done == ~out.err /\ out.result # <<>>
          IN  /\ ~NthCalled(out.calls, "redis.del", 1) => delItemOk
              /\ ~NthCalled(out.calls, "redis.del", 2) => delRankOk
              /\ Finish(out,
                        Returned("delete", symbol, 0, out, "none", NoWrite),
                        IF done
                        THEN [lastWrite EXCEPT ![symbol] = Written("del", 0)]
                        ELSE lastWrite,
                        IF done THEN Dirtied(rankDirty, delRankOk)
                        ELSE rankDirty)
              /\ http' = Answered("DELETE", JsonString(symbol), NoField,
                                  StatusOfRecord(out))
    /\ left' = left - 1
    /\ UNCHANGED <<now, started>>

(* ---------------------------- environment ------------------------------ *)
(* The ranking entry a listing left is gone once its key expires or is     *)
(* damaged.                                                                *)
Lost(dirty, key) ==
    IF key = rankCacheKey /\ dirty = "fresh" THEN "none" ELSE dirty

(* Redis removes a key whose TTL (cacheTTL) has elapsed.                   *)
Expire(key) ==
    /\ started
    /\ left > 0
    /\ Value(cache[key]) # Absent
    /\ cache[key].ttl > 0
    /\ cache' = [cache EXCEPT ![key] = Entry(Absent, 0)]
    /\ last' = NoOp
    /\ http' = NoRequest
    /\ rankDirty' = Lost(rankDirty, key)
    /\ left' = left - 1
    /\ UNCHANGED <<store, now, started, reliable, lastWrite, inflight,
                   race, process>>

(* A cached value is damaged outside the service: it no longer decodes.    *)
Corrupt(key) ==
    /\ started
    /\ left > 0
    /\ Value(cache[key]) \notin {Absent, Garbage}
    /\ cache' = [cache EXCEPT ![key] = Entry(Garbage, @.ttl)]
    /\ last' = NoOp
    /\ http' = NoRequest
    /\ rankDirty' = Lost(rankDirty, key)
    /\ left' = left - 1
    /\ UNCHANGED <<store, now, started, reliable, lastWrite, inflight,
                   race, process>>

Next ==
    \/ PrimeCache
    \/ \E s \in Symbols : GetBitcoin(s)
    \/ \E s \in SymbolFields, p \in PriceFields : SetBitcoin("PUT", s, p)
    \/ GetBitcoinsRanked
    \/ \E s \in Symbols : DeleteBitcoin(s)
    \/ \E k \in Keys : Expire(k)
    \/ \E k \in Keys : Corrupt(k)

Spec == Init /\ [][Next]_vars

SpecCacheUp == InitCacheUp /\ [][Next]_vars

(* The runs of Spec write through the PUT route; these take the POST route *)
(* as well, which calls SetBitcoin alike and differs in what it answers.   *)
NextHttp ==
    \/ Next
    \/ \E s \in SymbolFields, p \in PriceFields : SetBitcoin("POST", s, p)

SpecHttp == InitHttp /\ [][NextHttp]_vars

(* Redis removes a key whose TTL has elapsed whether or not the service is *)
(* called again: expiry after the last request of the run as well.         *)
Elapse(key) ==
    /\ Value(cache[key]) # Absent
    /\ cache[key].ttl > 0
    /\ cache' = [cache EXCEPT ![key] = Entry(Absent, 0)]
    /\ last' = NoOp
    /\ http' = NoRequest
    /\ rankDirty' = Lost(rankDirty, key)
    /\ UNCHANGED <<store, now, started, reliable, left, lastWrite,
                   inflight, race, process>>

InitFair == Boot(FALSE, MaxSteps - 1)

NextFair ==
    \/ Next
    \/ \E k \in Keys : Elapse(k)

(* Every key that carries a TTL is removed once the TTL has elapsed.       *)
SpecFair ==
    InitFair /\ [][NextFair]_vars /\ \A k \in Keys : WF_vars(Elapse(k))

(* ------------------- one request at a time, no failure ----------------- *)
(* A run over an empty Redis in which requests are served one after the    *)
(* other and no call to the store or to Redis fails.                       *)
InitSeq ==
    /\ Boot(TRUE, MaxSteps + 1)
    /\ cache = Cold

NoCallFails == \A i \in 1..Len(last'.calls) : last'.calls[i].ok

NextSeq ==
    \/ PrimeCache /\ NoCallFails
    \/ \E s \in Symbols : GetBitcoin(s) /\ NoCallFails
    \/ \E s \in SymbolFields, p \in PriceFields : SetBitcoin("PUT", s, p) /\ NoCallFails
    \/ GetBitcoinsRanked /\ NoCallFails
    \/ \E s \in Symbols : DeleteBitcoin(s) /\ NoCallFails
    \/ \E k \in Keys : Expire(k)

SpecSeq == InitSeq /\ [][NextSeq]_vars

(* ------------------------------ start-up ------------------------------- *)
(* Variant: main goes on when Redis does not answer the ping.              *)
Connect_IgnoresRedisPing ==
    /\ process = "ping"
    /\ \E dbPing, redisPing \in BOOLEAN :
          /\ ~dbPing => redisPing
          /\ process' = IF dbPing THEN "up" ELSE "exited"
          /\ last' = [NoOp EXCEPT
                         !.op = "connect",
                         !.calls = IF dbPing
                                   THEN <<Call("db.ping", "", TRUE),
                                          Call("redis.ping", "", redisPing)>>
                                   ELSE <<Call("db.ping", "", FALSE)>>]
    /\ UNCHANGED <<store, cache, now, started, reliable, left, http,
                   lastWrite, rankDirty, inflight, race>>

(* main before PrimeCache: db.Ping, then redisClient.Ping; log.Fatalf ends *)
(* the process when either fails (the second is not reached when the first *)
(* failed).                                                                *)
Connect ==
    /\ process = "ping"
    /\ \E dbPing, redisPing \in BOOLEAN :
          /\ ~dbPing => redisPing
          /\ process' = IF dbPing /\ redisPing THEN "up" ELSE "exited"
          /\ last' = [NoOp EXCEPT
                         !.op = "connect",
                         !.calls = IF dbPing
                                   THEN <<Call("db.ping", "", TRUE),
                                          Call("redis.ping", "", redisPing)>>
                                   ELSE <<Call("db.ping", "", FALSE)>>]
    /\ UNCHANGED <<store, cache, now, started, reliable, left, http,
                   lastWrite, rankDirty, inflight, race>>

(* The process as it is started, before main has connected.                *)
InitStart ==
    /\ store \in SUBSET SampleData
    /\ cache \in {Cold} \cup {WarmCache(store, rows) :
                                 rows \in OrderedByPriceDesc(store)}
    /\ now = 0
    /\ started = FALSE
    /\ reliable = FALSE
    /\ left = MaxSteps - 1
    /\ last = NoOp
    /\ http = NoRequest
    /\ lastWrite = [s \in Symbols |-> NoWrite]
    /\ rankDirty = "none"
    /\ inflight = [p \in Procs |-> Idle]
    /\ race = NoRace
    /\ process = "ping"

NextStart ==
    \/ Connect
    \/ Next

SpecStart == InitStart /\ [][NextStart]_vars

(* ---------------------- requests served concurrently ------------------- *)
(* gin serves every request in a goroutine of its own, and CacheService    *)
(* holds no lock: between two calls a goroutine makes to the store or to   *)
(* Redis, any other goroutine may make its own.  One action per call the   *)
(* operation makes, for a SetBitcoin and a GetBitcoin whose store and      *)
(* cache calls all succeed.                                                *)
Running(p) == inflight[p].pc \notin {"idle", "done"}

Quiet == \A p \in Procs : ~Running(p)

Begin(p) ==
    [race EXCEPT !.overlap = @ \/ \E q \in Procs \ {p} : Running(q)]

ConcFrame == UNCHANGED <<now, started, reliable, left, last, http,
                         lastWrite, rankDirty, process>>

(* SetBitcoin, the upsert (QueryRowContext ... Scan).                      *)
SetBitcoinUpsert(p, symbol, price) ==
    /\ inflight[p].pc = "idle"
    /\ store' = Upsert(store, symbol, price, now)
    /\ inflight' = [inflight EXCEPT
                      ![p] = [op |-> "set", symbol |-> symbol,
                              price |-> price, pc |-> "set",
                              old |-> SelectOne(store, symbol),
                              rec |-> SelectOne(store', symbol),
                              via |-> "store"]]
    /\ race' = [Begin(p) EXCEPT !.upsert[symbol] = p]
    /\ UNCHANGED cache
    /\ ConcFrame

(* Variant: the item entry is written with the row the upsert replaced.    *)
SetBitcoinCacheWrite_WritesOld(p) ==
    /\ inflight[p].op = "set" /\ inflight[p].pc = "set"
    /\ LET me == inflight[p]
           row == IF me.old = <<>> THEN me.rec ELSE me.old
       IN  /\ cache' = RedisSet(cache, getBitcoinCacheKey(me.symbol),
                                MarshalBitcoin(row[1]), cacheTTL, TRUE)
           /\ race' = [race EXCEPT !.write[me.symbol] = p]
    /\ inflight' = [inflight EXCEPT ![p].pc = "del"]
    /\ UNCHANGED store
    /\ ConcFrame

(* SetBitcoin, the write of the item entry (redisClient.Set).              *)
SetBitcoinCacheWrite(p) ==
    /\ inflight[p].op = "set" /\ inflight[p].pc = "set"
    /\ LET me == inflight[p]
       IN  /\ cache' = RedisSet(cache, getBitcoinCacheKey(me.symbol),
                                MarshalBitcoin(me.rec[1]), cacheTTL, TRUE)
           /\ race' = [race EXCEPT !.write[me.symbol] = p]
    /\ inflight' = [inflight EXCEPT ![p].pc = "del"]
    /\ UNCHANGED store
    /\ ConcFrame

(* SetBitcoin, the delete of the ranking entry (redisClient.Del), after    *)
(* which the call returns.                                                 *)
SetBitcoinInvalidate(p) ==
    /\ inflight[p].op = "set" /\ inflight[p].pc = "del"
    /\ cache' = RedisDel(cache, rankCacheKey, TRUE)
    /\ inflight' = [inflight EXCEPT ![p].pc = "done"]
    /\ UNCHANGED <<store, race>>
    /\ ConcFrame

(* GetBitcoin, the read of the item entry (redisClient.Get): a hit         *)
(* returns, a miss goes on to the store.                                   *)
GetBitcoinCacheRead(p, symbol) ==
    /\ inflight[p].pc = "idle"
    /\ LET cacheKey == getBitcoinCacheKey(symbol)
           hit == /\ RedisGetOk(cache, cacheKey, TRUE)
                  /\ UnmarshalBitcoinOk(cache[cacheKey])
       IN  inflight' = [inflight EXCEPT
                          ![p] = [op |-> "get", symbol |-> symbol,
                                  price |-> 0,
                                  pc |-> IF hit THEN "done" ELSE "select",
                                  old |-> <<>>,
                                  rec |-> IF hit
                                          THEN <<UnmarshalBitcoin(
                                                   cache[cacheKey])>>
                                          ELSE <<>>,
                                  via |-> IF hit THEN "cache" ELSE ""]]
    /\ race' = Begin(p)
    /\ UNCHANGED <<store, cache>>
    /\ ConcFrame

(* GetBitcoin, the SELECT: no row returns nil.                             *)
GetBitcoinSelect(p) ==
    /\ inflight[p].op = "get" /\ inflight[p].pc = "select"
    /\ LET row == SelectOne(store, inflight[p].symbol)
       IN  inflight' = [inflight EXCEPT
                          ![p].rec = row,
                          ![p].via = "store",
                          ![p].pc = IF row = <<>> THEN "done"
                                    ELSE "populate"]
    /\ UNCHANGED <<store, cache, race>>
    /\ ConcFrame

(* Variant: the populate step marshals a fresh Bitcoin rather than the one *)
(* it scanned.                                                             *)
GetBitcoinPopulate_CachesZero(p) ==
    /\ inflight[p].op = "get" /\ inflight[p].pc = "populate"
    /\ cache' = RedisSet(cache, getBitcoinCacheKey(inflight[p].symbol),
                         MarshalBitcoin(ZeroBitcoin), cacheTTL, TRUE)
    /\ inflight' = [inflight EXCEPT ![p].pc = "done"]
    /\ UNCHANGED <<store, race>>
    /\ ConcFrame

(* GetBitcoin, the populate step (redisClient.Set), after which the call   *)
(* returns.                                                                *)
GetBitcoinPopulate(p) ==
    /\ inflight[p].op = "get" /\ inflight[p].pc = "populate"
    /\ cache' = RedisSet(cache, getBitcoinCacheKey(inflight[p].symbol),
                         MarshalBitcoin(inflight[p].rec[1]), cacheTTL, TRUE)
    /\ inflight' = [inflight EXCEPT ![p].pc = "done"]
    /\ UNCHANGED <<store, race>>
    /\ ConcFrame

(* The service, primed or not, with its requests still to come.            *)
InitConc ==
    /\ store \in SUBSET SampleData
    /\ cache \in {Cold} \cup
                 {PrimeCacheRun(store, Cold, rows, Len(rows),
                                [i \in 1..Len(rows) |-> "ok"], TRUE).cache :
                     rows \in OrderedByPriceDesc(store)}
    /\ now = 0
    /\ started = TRUE
    /\ reliable = TRUE
    /\ left = 0
    /\ last = NoOp
    /\ http = NoRequest
    /\ lastWrite = [s \in Symbols |-> NoWrite]
    /\ rankDirty = "none"
    /\ inflight = [p \in Procs |-> Idle]
    /\ race = NoRace
    /\ process = "up"

NextConc ==
    \/ \E p \in Procs, s \in Symbols, price \in Prices :
          SetBitcoinUpsert(p, s, price)
    \/ \E p \in Procs : SetBitcoinCacheWrite(p)
    \/ \E p \in Procs : SetBitcoinInvalidate(p)
    \/ \E p \in Procs, s \in Symbols : GetBitcoinCacheRead(p, s)
    \/ \E p \in Procs : GetBitcoinSelect(p)
    \/ \E p \in Procs : GetBitcoinPopulate(p)

SpecConc == InitConc /\ [][NextConc]_vars

(* DeleteBitcoin, the DELETE ... RETURNING: no row returns nil.            *)
DeleteBitcoinExec(p, symbol) ==
    /\ inflight[p].pc = "idle"
    /\ store' = DeleteRow(store, symbol)
    /\ LET row == SelectOne(store, symbol)
       IN  inflight' = [inflight EXCEPT
                          ![p] = [op |-> "delete", symbol |-> symbol,
                                  price |-> 0,
                                  pc |-> IF row = <<>> THEN "done"
                                         ELSE "delitem",
                                  old |-> row, rec |-> row,
                                  via |-> "store"]]
    /\ race' = Begin(p)
    /\ UNCHANGED cache
    /\ ConcFrame

(* DeleteBitcoin, the delete of the item entry (redisClient.Del).          *)
DeleteBitcoinItem(p) ==
    /\ inflight[p].op = "delete" /\ inflight[p].pc = "delitem"
    /\ cache' = RedisDel(cache, getBitcoinCacheKey(inflight[p].symbol), TRUE)
    /\ inflight' = [inflight EXCEPT ![p].pc = "delrank"]
    /\ UNCHANGED <<store, race>>
    /\ ConcFrame

(* DeleteBitcoin, the delete of the ranking entry, after which the call    *)
(* returns.                                                                *)
DeleteBitcoinInvalidate(p) ==
    /\ inflight[p].op = "delete" /\ inflight[p].pc = "delrank"
    /\ cache' = RedisDel(cache, rankCacheKey, TRUE)
    /\ inflight' = [inflight EXCEPT ![p].pc = "done"]
    /\ UNCHANGED <<store, race>>
    /\ ConcFrame

(* GetBitcoinsRanked, the read of the ranking entry: a hit returns, a miss *)
(* goes on to the store.                                                   *)
GetBitcoinsRankedCacheRead(p) ==
    /\ inflight[p].pc = "idle"
    /\ LET hit == /\ RedisGetOk(cache, rankCacheKey, TRUE)
                  /\ UnmarshalListOk(cache[rankCacheKey])
       IN  inflight' = [inflight EXCEPT
                          ![p] = [op |-> "ranked", symbol |-> "",
                                  price |-> 0,
                                  pc |-> IF hit THEN "done" ELSE "query",
                                  old |-> <<>>,
                                  rec |-> IF hit
                                          THEN UnmarshalList(
                                                 cache[rankCacheKey])
                                          ELSE <<>>,
                                  via |-> IF hit THEN "cache" ELSE ""]]
    /\ race' = Begin(p)
    /\ UNCHANGED <<store, cache>>
    /\ ConcFrame

(* GetBitcoinsRanked, the ranked query and the scan of all its rows.       *)
GetBitcoinsRankedQuery(p) ==
    /\ inflight[p].op = "ranked" /\ inflight[p].pc = "query"
    /\ \E rows \in OrderedByPriceDesc(store) :
          inflight' = [inflight EXCEPT
                         ![p].rec = WithRowNumber(rows),
                         ![p].via = "store",
                         ![p].pc = "rcache"]
    /\ UNCHANGED <<store, cache, race>>
    /\ ConcFrame

(* GetBitcoinsRanked, the write of the ranking entry, after which the call *)
(* returns.                                                                *)
GetBitcoinsRankedCacheWrite(p) ==
    /\ inflight[p].op = "ranked" /\ inflight[p].pc = "rcache"
    /\ cache' = RedisSet(cache, rankCacheKey, MarshalList(inflight[p].rec),
                         cacheTTL, TRUE)
    /\ inflight' = [inflight EXCEPT ![p].pc = "done"]
    /\ UNCHANGED <<store, race>>
    /\ ConcFrame

(* The four request operations served at the same time.                    *)
NextServe ==
    \/ NextConc
    \/ \E p \in Procs, s \in Symbols : DeleteBitcoinExec(p, s)
    \/ \E p \in Procs : DeleteBitcoinItem(p)
    \/ \E p \in Procs : DeleteBitcoinInvalidate(p)
    \/ \E p \in Procs : GetBitcoinsRankedCacheRead(p)
    \/ \E p \in Procs : GetBitcoinsRankedQuery(p)
    \/ \E p \in Procs : GetBitcoinsRankedCacheWrite(p)

SpecServe == InitConc /\ [][NextServe]_vars

(* ============================ properties ================================ *)
ItemEntry(symbol) == Value(cache[getBitcoinCacheKey(symbol)])

Succeeded(ret) == ~ret.err

StoreCallFailed(calls) ==
    \E i \in 1..Len(calls) :
        calls[i].what \in {"db.select", "db.selectall", "db.upsert",
                           "db.delete"}
        /\ ~calls[i].ok

CacheCalls(calls) ==
    {i \in 1..Len(calls) :
        calls[i].what \in {"redis.get", "redis.set", "redis.del"}}

StoreCallMade(calls) ==
    \E i \in 1..Len(calls) :
        calls[i].what \in {"db.select", "db.selectall", "db.upsert",
                           "db.delete"}

(* The rows of a listing, without their ranks.                             *)
RowsIn(list) ==
    {Row(list[i].symbol, list[i].price, list[i].created_at,
         list[i].updated_at) : i \in 1..Len(list)}

(* ------------------------------- C1 ------------------------------------ *)
(* C1: after SetBitcoin(s, p) has returned success, the next GetBitcoin(s) *)
(* that returns a result (no write or delete of s in between) returns a    *)
(* Record with price p, on a cache hit and on a forced miss alike.         *)
(* Checked on the runs in which no cache call fails, which the claim       *)
(* includes.                                                               *)
C1_WriteVisibility ==
    (last.op = "get" /\ Succeeded(last) /\ last.pending.kind = "set")
        => (last.result # <<>>
            /\ last.result[1].price = last.pending.price)

(* ------------------------------- C2 ------------------------------------ *)
(* C2 as stated: whenever SetBitcoin(s, p) has returned success, the item  *)
(* cache entry of s holds the Record just written or is absent, whatever   *)
(* the outcome of the cache calls.                                         *)
C2_NewValueOrClearedAlways ==
    (last.op = "set" /\ Succeeded(last))
        => ItemEntry(last.symbol)
              \in {MarshalBitcoin(last.result[1]), Absent}

(* C2, amended: whenever SetBitcoin(s, p) returns success, the item cache  *)
(* entry of s holds the Record just written or is absent, or - only when   *)
(* the item cache write failed - is what it was before the call.           *)
C2_NewValueOrCleared ==
    [][(last'.op = "set" /\ Succeeded(last'))
        => LET k == getBitcoinCacheKey(last'.symbol)
               setFailed == \E i \in 1..Len(last'.calls) :
                               /\ last'.calls[i].what = "redis.set"
                               /\ ~last'.calls[i].ok
           IN  \/ Value(cache'[k]) \in {MarshalBitcoin(last'.result[1]), Absent}
               \/ (setFailed /\ cache'[k] = cache[k])]_vars

(* An update whose cache write succeeded: the entry is the new Record.     *)
C2_Witness ==
    /\ last.op = "set" /\ Succeeded(last)
    /\ last.result[1].created_at < last.result[1].updated_at
    /\ ~CacheCallFailed(last.calls)
    /\ ItemEntry(last.symbol) = MarshalBitcoin(last.result[1])

(* ------------------------------- C3 ------------------------------------ *)
(* C3: after DeleteBitcoin(s) has returned the deleted Record the store    *)
(* holds no row of s, and the next GetBitcoin(s) that returns a result     *)
(* returns not-found.  Checked on the runs in which no cache call fails,   *)
(* which the claim includes.                                               *)
C3_DeleteVisibility ==
    /\ (last.op = "delete" /\ Succeeded(last) /\ last.result # <<>>)
          => RowsOf(store, last.symbol) = {}
    /\ (last.op = "get" /\ Succeeded(last) /\ last.pending.kind = "del")
          => last.result = <<>>

(* ------------------------------- C4 ------------------------------------ *)
(* C4 as stated: after any SetBitcoin or DeleteBitcoin that returned       *)
(* success, the next GetBitcoinsRanked is not answered from the cache.     *)
C4_RankingInvalidationAlways ==
    (last.op = "ranked" /\ last.ctx \in {"ok", "failed"}) => ~last.hit

(* C4, amended: after a SetBitcoin or DeleteBitcoin that returned success  *)
(* and whose delete of the ranking cache entry succeeded, the next         *)
(* GetBitcoinsRanked queries the store (it is not answered from the        *)
(* cache).                                                                 *)
C4_RankingInvalidation ==
    (last.op = "ranked" /\ last.ctx = "ok")
        => (~last.hit /\ Reached(last.calls, "db.selectall"))

(* The first listing after a successful write whose delete of the ranking  *)
(* entry succeeded: computed from the store in full and cached again.      *)
C4_Witness ==
    /\ last.op = "ranked" /\ last.ctx = "ok" /\ Succeeded(last)
    /\ ~last.hit /\ ~last.corrupt
    /\ ~CacheCallFailed(last.calls)
    /\ RowsIn(last.result) = store /\ store # {}
    /\ Value(cache[rankCacheKey]) = MarshalList(last.result)

C6_RankedTracksStore ==
    (last.op = "ranked" /\ Succeeded(last) /\ reliable)
        => /\ RowsIn(last.result) = store
           /\ Len(last.result) = Cardinality(store)

(* ------------------------------- C7 ------------------------------------ *)
(* C7: DeleteBitcoin(s) of a symbol without a row (the store call          *)
(* succeeding) returns nil without error, leaves the table and every cache *)
(* key as they were and makes no cache call.                               *)
C7_DeleteAbsent ==
    [][(/\ last'.op = "delete"
        /\ RowsOf(store, last'.symbol) = {}
        /\ ~StoreCallFailed(last'.calls))
        => /\ last'.result = <<>> /\ Succeeded(last')
           /\ store' = store /\ cache' = cache
           /\ CacheCalls(last'.calls) = {}]_vars

(* A delete of an absent symbol while cache entries exist.                 *)
C7_Witness ==
    /\ last.op = "delete" /\ Succeeded(last) /\ last.result = <<>>
    /\ RowsOf(store, last.symbol) = {}
    /\ ItemEntry(last.symbol) # Absent
    /\ Value(cache[rankCacheKey]) # Absent

(* ------------------------------- C8 ------------------------------------ *)
(* C8: a successful SetBitcoin(s, p) leaves exactly one row of s, the      *)
(* Record it returns, with price p; when s had a row, its created_at is    *)
(* kept and its updated_at does not go back; and the row of s changes only *)
(* in a SetBitcoin(s) or DeleteBitcoin(s).                                 *)
C8_UpsertKeepsCreatedAt ==
    [][/\ (last'.op = "set" /\ Succeeded(last'))
          => /\ RowsOf(store', last'.symbol) = {last'.result[1]}
             /\ last'.result[1].price = last'.price
             /\ \A old \in RowsOf(store, last'.symbol) :
                   /\ last'.result[1].created_at = old.created_at
                   /\ last'.result[1].updated_at >= old.updated_at
       /\ \A s \in Symbols :
             RowsOf(store', s) # RowsOf(store, s)
                => (last'.op \in {"set", "delete"} /\ last'.symbol = s)]_vars

(* An update at a later time than the insert: the timestamps differ.       *)
C8_Witness ==
    /\ last.op = "set" /\ Succeeded(last)
    /\ last.result[1].created_at < last.result[1].updated_at
    /\ RowsOf(store, last.symbol) = {last.result[1]}

(* ------------------------------- C9 ------------------------------------ *)
(* C9: when the item cache entry of s holds data that does not decode as a *)
(* Record, GetBitcoin(s) queries the store and, unless that query fails,   *)
(* returns the store's row of s, or nil when there is none, without error. *)
C9_CorruptEntryFallsThrough ==
    (last.op = "get" /\ last.corrupt)
        => /\ Reached(last.calls, "db.select")
           /\ ~last.hit
           /\ last.err = StoreCallFailed(last.calls)
           /\ Succeeded(last) => last.result = SelectOne(store, last.symbol)

(* A read of a damaged entry that returned the row of the store.           *)
C9_Witness ==
    /\ last.op = "get" /\ last.corrupt /\ Succeeded(last)
    /\ last.result # <<>>
    /\ last.result = SelectOne(store, last.symbol)

(* ------------------------------- C10 ----------------------------------- *)
(* C10: when the store call of SetBitcoin, DeleteBitcoin, GetBitcoin or    *)
(* GetBitcoinsRanked fails, the operation returns an error and no Record,  *)
(* and leaves the table and every cache key as they were.                  *)
C10_StoreFailureSurfaced ==
    [][(/\ last'.op \in {"set", "delete", "get", "ranked"}
        /\ StoreCallFailed(last'.calls))
        => /\ last'.err /\ last'.result = <<>>
           /\ store' = store /\ cache' = cache]_vars

(* ------------------------------- C11 ----------------------------------- *)
(* C11: whenever the store call of SetBitcoin, DeleteBitcoin, GetBitcoin   *)
(* or GetBitcoinsRanked succeeds, the operation returns success with the   *)
(* result derived from the store and the table holds the completed write   *)
(* or delete, whichever of its cache calls fail.                           *)
C11_CacheErrorsNeverPropagate ==
    [][(/\ last'.op \in {"set", "delete", "get", "ranked"}
        /\ StoreCallMade(last'.calls)
        /\ ~StoreCallFailed(last'.calls))
        => /\ Succeeded(last')
           /\ last'.op = "set"
                 => /\ store' = Upsert(store, last'.symbol, last'.price, now')
                    /\ last'.result = SelectOne(store', last'.symbol)
           /\ last'.op = "delete"
                 => /\ store' = DeleteRow(store, last'.symbol)
                    /\ last'.result = SelectOne(store, last'.symbol)
           /\ last'.op = "get"
                 => /\ store' = store
                    /\ last'.result = SelectOne(store, last'.symbol)
           /\ last'.op = "ranked"
                 => /\ store' = store
                    /\ \E rows \in OrderedByPriceDesc(store) :
                          last'.result = WithRowNumber(rows)]_vars

(* A delete that returned the deleted Record although both of its cache    *)
(* deletes failed: the row is gone, the entry is still there.              *)
C11_Witness ==
    /\ last.op = "delete" /\ Succeeded(last) /\ last.result # <<>>
    /\ \A i \in CacheCalls(last.calls) : ~last.calls[i].ok
    /\ Len(last.calls) = 3
    /\ RowsOf(store, last.symbol) = {}
    /\ ItemEntry(last.symbol) = MarshalBitcoin(last.result[1])

(* ------------------------------- C12 ----------------------------------- *)
(* C12: a GetBitcoin(s) that gets no Record from the cache and finds no    *)
(* row of s returns nil without error and leaves every cache key as it     *)
(* was; and the next GetBitcoin(s), s not having been written since,       *)
(* queries the store again.                                                *)
C12_UnknownSymbol ==
    [][last'.op = "get"
        => /\ (/\ ~last'.hit
               /\ RowsOf(store, last'.symbol) = {}
               /\ ~StoreCallFailed(last'.calls))
                 => /\ last'.result = <<>> /\ Succeeded(last')
                    /\ cache' = cache
           /\ last'.pending.kind = "unknown"
                 => Reached(last'.calls, "db.select")]_vars

(* ------------------------------- C13 ----------------------------------- *)
(* C13: when GetBitcoin(s) gets no Record from the cache, finds the row of *)
(* s and its cache write succeeds, then on return the item entry of s is   *)
(* the returned Record, the ranking entry and the item entries of the      *)
(* other symbols are what they were, and so is the table.                  *)
C13_ReadThroughPopulation ==
    [][(/\ last'.op = "get" /\ Succeeded(last') /\ ~last'.hit
        /\ last'.result # <<>>
        /\ ~CacheCallFailed(last'.calls))
        => /\ Value(cache'[getBitcoinCacheKey(last'.symbol)])
                 = MarshalBitcoin(last'.result[1])
           /\ cache'[rankCacheKey] = cache[rankCacheKey]
           /\ \A s \in Symbols \ {last'.symbol} :
                 cache'[getBitcoinCacheKey(s)] = cache[getBitcoinCacheKey(s)]
           /\ store' = store]_vars

(* ------------------------------- C14 ----------------------------------- *)
(* C14: the first call of every GetBitcoin(s) is the read of the item      *)
(* cache key of s; when that read returns a value that decodes, the        *)
(* operation returns the decoded Record, makes no other call (no store     *)
(* query, no cache write that would renew the TTL) and leaves the table    *)
(* and every cache key as they were.                                       *)
C14_CacheFirstReads ==
    [][last'.op = "get"
        => LET k == getBitcoinCacheKey(last'.symbol)
           IN  /\ Len(last'.calls) >= 1
               /\ last'.calls[1].what = "redis.get"
               /\ last'.calls[1].key = k
               /\ (/\ last'.calls[1].ok
                   /\ Value(cache[k]) # Absent
                   /\ UnmarshalBitcoinOk(cache[k]))
                     => /\ last'.hit /\ Succeeded(last')
                        /\ last'.result = <<UnmarshalBitcoin(cache[k])>>
                        /\ Len(last'.calls) = 1
                        /\ store' = store /\ cache' = cache]_vars

(* A hit that returned the cached Record of a symbol.                      *)
C14_Witness ==
    /\ last.op = "get" /\ last.hit /\ Succeeded(last)
    /\ Len(last.calls) = 1
    /\ last.result[1].symbol = last.symbol
    /\ ItemEntry(last.symbol) = MarshalBitcoin(last.result[1])

(* ------------------------------- C15 ----------------------------------- *)
(* C15: every non-nil Record GetBitcoin(s) returns is a row the table held *)
(* for s at some time.  Every such row has symbol s and a price a caller   *)
(* wrote, so the Record returned has them too.                             *)
C15_ReturnedRecordWasStored ==
    (last.op = "get" /\ Succeeded(last) /\ last.result # <<>>)
        => /\ last.result[1].symbol = last.symbol
           /\ last.result[1].price \in Prices

(* ------------------------------- C16 ----------------------------------- *)
(* C16: no Record returned by GetBitcoin, SetBitcoin or DeleteBitcoin      *)
(* carries a rank; no single-Record cache value (what PrimeCache,          *)
(* GetBitcoin and SetBitcoin write) carries a rank; a list of ranked       *)
(* Records is cached under the ranking key only.                           *)
C16_RankOnlyInListings ==
    /\ last.op \in {"get", "set", "delete"}
          => \A i \in 1..Len(last.result) : last.result[i].rank = NoRank
    /\ \A k \in Keys :
          /\ cache[k].kind = "obj" => cache[k].val[1].rank = NoRank
          /\ cache[k].kind = "arr" => k = rankCacheKey

(* A GetBitcoin that read a row from the store, returned and cached it     *)
(* without rank, while the ranking entry holds a list with ranks.          *)
C16_Witness ==
    /\ last.op = "get" /\ Succeeded(last) /\ ~last.hit
    /\ last.result # <<>>
    /\ last.result[1].rank = NoRank
    /\ ItemEntry(last.symbol) = MarshalBitcoin(last.result[1])
    /\ cache[rankCacheKey].kind = "arr"
    /\ \A i \in 1..Len(cache[rankCacheKey].val) :
          cache[rankCacheKey].val[i].rank = i

(* ------------------------------- C17 ----------------------------------- *)
(* C17: when PrimeCache runs and none of its calls fails, then on return   *)
(* every row of the table has an item cache entry equal to it, the table   *)
(* is what it was, and so is the ranking cache entry.                      *)
C17_PrimingEffect ==
    [][(/\ last'.op = "prime" /\ Succeeded(last')
        /\ \A i \in 1..Len(last'.calls) : last'.calls[i].ok)
        => /\ \A r \in store :
                 Value(cache'[getBitcoinCacheKey(r.symbol)]) = MarshalBitcoin(r)
           /\ store' = store
           /\ cache'[rankCacheKey] = cache[rankCacheKey]]_vars

(* ------------------------------- C18 ----------------------------------- *)
(* C18: when the query of PrimeCache delivers every row, each row is       *)
(* scanned and, unless the scan failed, written to its item cache key; a   *)
(* row whose scan or cache write failed leaves its key as it was and the   *)
(* loop goes on with the rows after it; PrimeCache returns no error and    *)
(* the count is the number of cache writes that succeeded.                 *)
C18_PrimingSkipsFailedRecords ==
    [][(/\ last'.op = "prime"
        /\ last'.calls[1].what = "db.selectall" /\ last'.calls[1].ok)
        => LET calls == last'.calls
               About(r) ==
                   {i \in 2..Len(calls) :
                       \/ calls[i] = Call("rows.scan", r.symbol, FALSE)
                       \/ /\ calls[i].what = "redis.set"
                          /\ calls[i].key = getBitcoinCacheKey(r.symbol)}
               Cached(r) ==
                   \E i \in About(r) :
                       calls[i].what = "redis.set" /\ calls[i].ok
           IN  /\ Succeeded(last')
               /\ Len(calls) = 1 + Cardinality(store)
               /\ \A r \in store :
                     /\ Cardinality(About(r)) = 1
                     /\ Value(cache'[getBitcoinCacheKey(r.symbol)]) =
                           IF Cached(r) THEN MarshalBitcoin(r)
                           ELSE Value(cache[getBitcoinCacheKey(r.symbol)])
               /\ last'.count = Cardinality({r \in store : Cached(r)})]_vars

(* The first of two rows failed, the second was cached and counted.        *)
C18_Witness ==
    /\ last.op = "prime" /\ Succeeded(last)
    /\ Len(last.calls) = 3
    /\ ~last.calls[2].ok
    /\ last.calls[3].what = "redis.set" /\ last.calls[3].ok
    /\ cache[last.calls[3].key].kind = "obj"
    /\ last.count = 1

C20_RankedReadThrough ==
    [][last'.op = "ranked"
        => /\ (/\ last'.calls[1].ok
               /\ Value(cache[rankCacheKey]) # Absent
               /\ UnmarshalListOk(cache[rankCacheKey]))
                 => /\ last'.hit /\ Succeeded(last')
                    /\ last'.result = UnmarshalList(cache[rankCacheKey])
                    /\ Len(last'.calls) = 1
                    /\ cache' = cache
           /\ (~last'.hit /\ ~StoreCallFailed(last'.calls))
                 => /\ Reached(last'.calls, "db.selectall")
                    /\ \E rows \in OrderedByPriceDesc(store) :
                          last'.result = WithRowNumber(rows)
                    /\ ~CacheCallFailed(last'.calls)
                          => Value(cache'[rankCacheKey])
                                = MarshalList(last'.result)
           /\ last'.ctx = "fresh" => last'.hit]_vars

(* ------------------------------- C21 ----------------------------------- *)
(* C21: a DeleteBitcoin(s) that finds the row of s removes that row and no *)
(* other, returns it as it was, and, when its cache deletes succeed,       *)
(* leaves the item entry of s and the ranking entry absent and the item    *)
(* entry of every other symbol as it was.                                  *)
C21_DeleteEffects ==
    [][(/\ last'.op = "delete"
        /\ RowsOf(store, last'.symbol) # {}
        /\ ~StoreCallFailed(last'.calls))
        => /\ store' = store \ RowsOf(store, last'.symbol)
           /\ last'.result = SelectOne(store, last'.symbol)
           /\ ~CacheCallFailed(last'.calls)
                 => /\ Value(cache'[getBitcoinCacheKey(last'.symbol)]) = Absent
                    /\ Value(cache'[rankCacheKey]) = Absent
                    /\ \A s \in Symbols \ {last'.symbol} :
                          cache'[getBitcoinCacheKey(s)]
                             = cache[getBitcoinCacheKey(s)]]_vars

(* ------------------------------- C22 ----------------------------------- *)
(* C22: the calls of a SetBitcoin are, in this order, the upsert, the      *)
(* write of the item entry and the delete of the ranking entry; when the   *)
(* upsert fails no cache call is made and the cache stays as it was, and   *)
(* an item entry the call wrote is the row the upsert left in the table.   *)
C22_WriteThroughOrdering ==
    [][last'.op = "set"
        => LET calls == last'.calls
               k == getBitcoinCacheKey(last'.symbol)
           IN  /\ calls[1].what = "db.upsert"
               /\ ~calls[1].ok
                     => /\ Len(calls) = 1
                        /\ cache' = cache /\ store' = store
               /\ calls[1].ok
                     => /\ Len(calls) = 3
                        /\ calls[2].what = "redis.set" /\ calls[2].key = k
                        /\ calls[3].what = "redis.del"
                        /\ calls[3].key = rankCacheKey
                        /\ cache'[k] # cache[k]
                              => Value(cache'[k]) \in
                                    {MarshalBitcoin(r) :
                                        r \in RowsOf(store', last'.symbol)}
                                    \cup {Absent}]_vars

(* A write whose three calls succeeded: the row is in the table and in the *)
(* item entry.                                                             *)
C22_Witness ==
    /\ last.op = "set" /\ Succeeded(last)
    /\ Len(last.calls) = 3
    /\ \A i \in 1..3 : last.calls[i].ok
    /\ ItemEntry(last.symbol) = MarshalBitcoin(last.result[1])
    /\ RowsOf(store, last.symbol) = {last.result[1]}

(* ------------------------------- C30 ----------------------------------- *)
(* C30: a SetBitcoin whose upsert succeeded issues the delete of the       *)
(* ranking entry exactly once, whether or not the write of the item entry  *)
(* succeeded, and returns the row without an error whether or not the      *)
(* delete succeeded; a delete that succeeded leaves the ranking entry      *)
(* absent.                                                                 *)
C30_UnconditionalInvalidation ==
    [][(last'.op = "set" /\ last'.calls[1].ok)
        => LET calls == last'.calls
               dels == {i \in 1..Len(calls) :
                           /\ calls[i].what = "redis.del"
                           /\ calls[i].key = rankCacheKey}
           IN  /\ Cardinality(dels) = 1
               /\ \A i \in dels : \A j \in 1..Len(calls) :
                     calls[j].what = "redis.set" => j < i
               /\ ~last'.err /\ last'.result # <<>>
               /\ (\A i \in dels : calls[i].ok)
                     => Value(cache'[rankCacheKey]) = Absent]_vars

(* A write whose item entry could not be written and whose ranking delete  *)
(* went through: the ranking entry is absent.                              *)
C30_Witness ==
    /\ last.op = "set" /\ Succeeded(last)
    /\ \E i \in 1..Len(last.calls) :
          last.calls[i].what = "redis.set" /\ ~last.calls[i].ok
    /\ \E i \in 1..Len(last.calls) :
          last.calls[i].what = "redis.del" /\ last.calls[i].ok
    /\ Value(cache[rankCacheKey]) = Absent

(* ------------------------------- C27 ----------------------------------- *)
(* The step was the expiry of a key, not a call of the service.            *)
Expired(k) ==
    /\ last' = NoOp /\ http' = NoRequest
    /\ cache' = [cache EXCEPT ![k] = Entry(Absent, 0)]

CallDone(calls, what, k) ==
    \E i \in 1..Len(calls) : calls[i] = Call(what, k, TRUE)

CallFailedOn(calls, k) ==
    \E i \in 1..Len(calls) : calls[i].key = k /\ ~calls[i].ok

C29_RequestValidation ==
    [][/\ (/\ http'.method = "POST"
            /\ http'.symbol.kind = "string" /\ http'.symbol.str # ""
            /\ http'.price.kind = "int")
              => /\ http'.status # 400
                 /\ last'.op = "set"
                 /\ last'.symbol = http'.symbol.str
                 /\ last'.price = http'.price.int
                 /\ ~StoreCallFailed(last'.calls) => http'.status = 201
       /\ (http'.method = "POST" /\ http'.status = 400)
              => \/ http'.symbol.kind # "string"
                 \/ http'.price.kind # "int"
       /\ http'.status = 400
              => last' = NoOp /\ store' = store /\ cache' = cache]_vars

(* ------------------------------- C26 ----------------------------------- *)
(* What agrees with the table under a key: the row of the key's symbol     *)
(* and, under the ranking key, the ranked list of the table's rows.        *)
Agreeing(k) ==
    {MarshalBitcoin(r) :
        r \in {x \in store : getBitcoinCacheKey(x.symbol) = k}}
    \cup (IF k = rankCacheKey
          THEN {MarshalList(WithRowNumber(rows)) :
                   rows \in OrderedByPriceDesc(store)}
          ELSE {})

Disagrees(k) == Value(cache[k]) \notin ({Absent} \cup Agreeing(k))

(* C26: every entry in the cache carries the one fixed TTL; when keys      *)
(* expire once their TTL has elapsed, every entry that disagrees with the  *)
(* table is eventually absent or replaced by one that agrees; and a read   *)
(* served from the cache found its key present.                            *)
C26_TtlBoundedStaleness ==
    /\ [](\A k \in Keys :
            Value(cache[k]) # Absent
               => cache[k].ttl = cacheTTL /\ cache[k].ttl > 0)
    /\ \A k \in Keys : Disagrees(k) ~> ~Disagrees(k)
    /\ [][(last'.op \in {"get", "ranked"} /\ last'.hit)
            => LET k == IF last'.op = "get"
                        THEN getBitcoinCacheKey(last'.symbol)
                        ELSE rankCacheKey
               IN  Value(cache[k]) # Absent /\ cache[k].ttl > 0]_vars

(* A write whose cache write failed left the old row in the item entry,    *)
(* with its TTL running.                                                   *)
C26_Witness ==
    /\ last.op = "set" /\ Succeeded(last)
    /\ Disagrees(getBitcoinCacheKey("BTC"))
    /\ cache[getBitcoinCacheKey("BTC")].ttl = cacheTTL

(* ------------------------------- C23 ----------------------------------- *)
SetsDone(p, q, s) ==
    /\ p # q
    /\ inflight[p].op = "set" /\ inflight[p].pc = "done"
    /\ inflight[q].op = "set" /\ inflight[q].pc = "done"
    /\ inflight[p].symbol = s /\ inflight[q].symbol = s
    /\ \A o \in Procs \ {p, q} : inflight[o].symbol # s

(* C23: once two SetBitcoin calls of one symbol, run at the same time with *)
(* no other call on the symbol, have both returned, the table holds the    *)
(* row of the upsert that came last and the item entry the row of the call *)
(* whose cache write came last.                                            *)
C23_ConcurrentWriters ==
    \A p, q \in Procs, s \in Symbols :
        (SetsDone(p, q, s) /\ race.overlap)
           => /\ RowsOf(store, s) = {inflight[race.upsert[s]].rec[1]}
              /\ ItemEntry(s) = MarshalBitcoin(inflight[race.write[s]].rec[1])

(* ------------------------------- C24 ----------------------------------- *)
(* The rows a reader of the symbol may have got from the table while the   *)
(* writes in flight or returned were made: the row now in the table and    *)
(* the rows those writes replaced.                                         *)
HeldRows(s) ==
    RowsOf(store, s)
    \cup {inflight[q].old[1] :
             q \in {o \in Procs : /\ inflight[o].op = "set"
                                  /\ inflight[o].symbol = s
                                  /\ inflight[o].old # <<>>}}

(* C24: the value the populate step of a GetBitcoin(s) writes into the     *)
(* item entry is the row the table held before a SetBitcoin(s, p) running  *)
(* at the same time, or the row that write left, and nothing else.         *)
C24_ReaderWriterRace ==
    [][\A p \in Procs :
         (/\ inflight[p].op = "get" /\ inflight[p].pc = "populate"
          /\ inflight'[p].pc = "done")
           => LET k == getBitcoinCacheKey(inflight[p].symbol)
              IN  /\ Value(cache'[k]) \in
                        {MarshalBitcoin(r) : r \in HeldRows(inflight[p].symbol)}
                  /\ \A o \in Keys \ {k} : cache'[o] = cache[o]]_vars

(* Both calls have returned; the reader missed and populated; the item     *)
(* entry holds the row the write replaced, the table the new row.          *)
C24_Witness ==
    \E p, q \in Procs :
        /\ Quiet /\ race.overlap
        /\ inflight[p].op = "get" /\ inflight[p].via = "store"
        /\ inflight[p].rec # <<>>
        /\ inflight[q].op = "set" /\ inflight[q].symbol = inflight[p].symbol
        /\ inflight[q].old # <<>>
        /\ inflight[q].old # inflight[q].rec
        /\ ItemEntry(inflight[p].symbol) = MarshalBitcoin(inflight[q].old[1])
        /\ RowsOf(store, inflight[p].symbol) = {inflight[q].rec[1]}

(* ------------------------------- C25 ----------------------------------- *)
Consistent ==
    \A s \in Symbols :
        ItemEntry(s) # Absent
           => ItemEntry(s) \in {MarshalBitcoin(r) : r \in RowsOf(store, s)}

Statements(op) ==
    CASE op = "get" -> <<"redis.get", "db.select", "redis.set">>
      [] op = "set" -> <<"db.upsert", "redis.set", "redis.del">>
      [] op = "delete" -> <<"db.delete", "redis.del", "redis.del">>
      [] op = "ranked" -> <<"redis.get", "db.selectall", "redis.set">>
      [] OTHER -> <<>>

(* The symbol a call of PrimeCache's loop is made for.                     *)
LoopKey(call) ==
    IF call.what = "rows.scan" THEN getBitcoinCacheKey(call.key)
    ELSE call.key

C34_KeySpaceSeparation ==
    [][/\ \A s \in Symbols : getBitcoinCacheKey(s) # rankCacheKey
       /\ \A s, t \in Symbols :
             s # t => getBitcoinCacheKey(s) # getBitcoinCacheKey(t)
       /\ last'.op \in {"get", "set", "prime"}
             => \A i \in 1..Len(last'.calls) :
                   last'.calls[i].what \in {"redis.get", "redis.set"}
                      => last'.calls[i].key # rankCacheKey
       /\ (last'.op = "delete" /\ Len(last'.calls) >= 2)
             => last'.calls[2].key # rankCacheKey
       /\ last'.op = "ranked"
             => \A i \in CacheCalls(last'.calls) :
                   last'.calls[i].key \notin
                      {getBitcoinCacheKey(s) : s \in Symbols}]_vars

(* ------------------------------- C37 ----------------------------------- *)
(* C37: a GetBitcoin(s) that finds an item entry which does not decode     *)
(* goes to the store; with a row of s in the table it overwrites the entry *)
(* with that row when its cache write succeeds, and the entry then decodes *)
(* to the row; with no row of s it returns nil and leaves the entry and    *)
(* every other key as they were, making no cache call but the read.  A     *)
(* GetBitcoin(s) over an entry that decodes, its cache read succeeding, is *)
(* a hit.                                                                  *)
C37_CorruptEntryRepair ==
    [][last'.op = "get"
        => LET k == getBitcoinCacheKey(last'.symbol)
               row == SelectOne(store, last'.symbol)
               calls == last'.calls
           IN  /\ (Value(cache[k]) # Absent /\ ~UnmarshalBitcoinOk(cache[k]))
                     => /\ ~last'.hit
                        /\ Len(calls) >= 2 /\ calls[2].what = "db.select"
                        /\ calls[1].ok <=> last'.corrupt
               /\ (last'.corrupt /\ ~StoreCallFailed(calls) /\ row # <<>>)
                     => /\ last'.result = row /\ Succeeded(last')
                        /\ CallDone(calls, "redis.set", k)
                              => /\ Value(cache'[k]) = MarshalBitcoin(row[1])
                                 /\ UnmarshalBitcoinOk(cache'[k])
                                 /\ UnmarshalBitcoin(cache'[k]) = row[1]
                        /\ ~CallDone(calls, "redis.set", k)
                              => cache' = cache
               /\ (last'.corrupt /\ ~StoreCallFailed(calls) /\ row = <<>>)
                     => /\ last'.result = <<>> /\ Succeeded(last')
                        /\ cache' = cache
                        /\ CacheCalls(calls) = {1}
               /\ (/\ Value(cache[k]) # Absent /\ UnmarshalBitcoinOk(cache[k])
                   /\ calls[1].ok)
                     => /\ last'.hit /\ Succeeded(last')
                        /\ last'.result = <<UnmarshalBitcoin(cache[k])>>]_vars

(* The last request of the run found a damaged entry of BTC and wrote the  *)
(* table's row over it.                                                    *)
C37_Witness ==
    /\ left = 0
    /\ last.op = "get" /\ last.symbol = "BTC"
    /\ last.corrupt /\ Succeeded(last)
    /\ last.result # <<>>
    /\ ItemEntry("BTC") = MarshalBitcoin(last.result[1])

(* ------------------------------- C38 ----------------------------------- *)
Requested(ret) == ret.op \in {"get", "set", "ranked", "delete"}

(* C38: PrimeCache runs only in a process that has connected and has not   *)
(* primed yet, and has returned, with or without an error, before any      *)
(* request is handled; once serving, the process never primes again; and a *)
(* process whose ping of the store or of Redis failed exits: it neither    *)
(* primes nor serves, and leaves the table and the cache as they were.     *)
C38_PrimingPrecedesServing ==
    [][/\ last'.op = "prime"
             => process = "up" /\ ~started /\ started'
       /\ started => started' /\ last'.op # "prime"
       /\ (Requested(last') \/ http' # NoRequest) => started /\ process = "up"
       /\ last'.op = "connect"
             => /\ process = "ping"
                /\ process' = (IF \A i \in 1..Len(last'.calls) :
                                      last'.calls[i].ok
                               THEN "up" ELSE "exited")
                /\ ~started' /\ store' = store /\ cache' = cache
       /\ process # "exited"
       /\ process = "ping" => last'.op = "connect"]_vars

(* A connected and primed process has served a read from an entry that     *)
(* priming left.                                                           *)
C38_Witness ==
    /\ process = "up" /\ started
    /\ left = MaxSteps - 2
    /\ last.op = "get" /\ last.hit
    /\ lastWrite[last.symbol] = NoWrite

(* ------------------------------- C31 ----------------------------------- *)
(* The listings a GetBitcoinsRanked that begins in this state, with no     *)
(* other call running, can return: the cached one, or those of the table.  *)
RankedNow ==
    IF Value(cache[rankCacheKey]) # Absent
       /\ UnmarshalListOk(cache[rankCacheKey])
    THEN {UnmarshalList(cache[rankCacheKey])}
    ELSE {WithRowNumber(rows) : rows \in OrderedByPriceDesc(store)}

WroteOk(p) ==
    /\ inflight[p].pc = "done"
    /\ \/ inflight[p].op = "set"
       \/ inflight[p].op = "delete" /\ inflight[p].rec # <<>>

(* C31: once a SetBitcoin or DeleteBitcoin that ran at the same time as    *)
(* GetBitcoinsRanked calls, and as nothing else, has returned success and  *)
(* no call is running, a GetBitcoinsRanked that begins returns a listing   *)
(* of the rows the write left in the table.                                *)
C31_RankedReadAfterWrite ==
    \A w \in Procs :
        (/\ Quiet /\ WroteOk(w)
         /\ \A o \in Procs \ {w} : inflight[o].op \in {"none", "ranked"})
           => \A listing \in RankedNow :
                 /\ RowsIn(listing) = store
                 /\ Len(listing) = Cardinality(store)

(* ------------------------------- C32 ----------------------------------- *)
(* C32: once a DeleteBitcoin(s) that ran at the same time as GetBitcoin    *)
(* calls, and as nothing else, has returned the deleted row and no call is *)
(* running, the table has no row of s and the item entry of s is absent,   *)
(* so that a GetBitcoin(s) that begins returns not-found.                  *)
C32_ReadAfterDelete ==
    \A d \in Procs :
        (/\ Quiet
         /\ inflight[d].op = "delete" /\ inflight[d].rec # <<>>
         /\ \A o \in Procs \ {d} : inflight[o].op \in {"none", "get"})
           => /\ RowsOf(store, inflight[d].symbol) = {}
              /\ ItemEntry(inflight[d].symbol) = Absent

(* ------------------------------- C35 ----------------------------------- *)
RankedListings ==
    {MarshalList(WithRowNumber(rows)) : rows \in OrderedByPriceDesc(store)}

(* C35: in a run over an empty cache, one operation at a time and with no  *)
(* failing call, every item entry that is present is the row the table     *)
(* holds for its symbol, and a ranking entry that is present is the ranked *)
(* list of the rows the table holds.                                       *)
C35_SequentialConsistency ==
    /\ \A s \in Symbols :
          ItemEntry(s) # Absent
             => ItemEntry(s) \in {MarshalBitcoin(r) : r \in RowsOf(store, s)}
    /\ Value(cache[rankCacheKey]) # Absent
          => Value(cache[rankCacheKey]) \in RankedListings

(* ------------------------------- C36 ----------------------------------- *)
(* Contents Redis could hold instead of the ones it holds: per key nothing,*)
(* bytes that are no JSON, JSON null, or a Record of some symbol.          *)
OtherEntries ==
    {Entry(Absent, 0), Entry(Garbage, cacheTTL), Entry(JsonNull, cacheTTL)}
       \cup {Entry(MarshalBitcoin(Row(s, MaxPrice, 0, 0)), cacheTTL) :
                s \in Symbols}

OtherCaches == [Keys -> OtherEntries]

(* C36: what a SetBitcoin or DeleteBitcoin does to the table and what it   *)
(* returns is fixed by the table, the arguments and the outcome of its     *)
(* store call: with any other cache contents and any other outcomes of its *)
(* cache calls it leaves the same table and returns the same Record and    *)
(* error.  GetBitcoin, GetBitcoinsRanked and PrimeCache leave the table as *)
(* it was.  (Two runs of the same calls with the same store outcomes       *)
(* therefore agree on the table and on these results step by step.)        *)
C36_CacheNeverInfluencesStore ==
    [][/\ last'.op \in {"get", "ranked", "prime"} => store' = store
       /\ last'.op = "set"
             => \A c \in OtherCaches, setOk, delOk \in BOOLEAN :
                   LET out == SetBitcoinRun(store, c, last'.symbol,
                                            last'.price, now',
                                            last'.calls[1].ok, setOk, delOk)
                   IN  /\ out.store = store'
                       /\ out.result = last'.result
                       /\ out.err = last'.err
       /\ last'.op = "delete"
             => \A c \in OtherCaches, delItemOk, delRankOk \in BOOLEAN :
                   LET out == DeleteBitcoinRun(store, c, last'.symbol,
                                               last'.calls[1].ok,
                                               delItemOk, delRankOk)
                   IN  /\ out.store = store'
                       /\ out.result = last'.result
                       /\ out.err = last'.err]_vars

(* A SetBitcoin that returned its Record with the table holding that row,  *)
(* although its write of the item entry failed and the entry holds a       *)
(* Record with another price.                                              *)
C36_Witness ==
    /\ last.op = "set" /\ Succeeded(last)
    /\ Len(last.calls) = 3 /\ ~last.calls[2].ok
    /\ ItemEntry(last.symbol).kind = "obj"
    /\ ItemEntry(last.symbol).val[1].price # last.price
    /\ last.result[1] \in RowsOf(store, last.symbol)
    /\ last.result[1].price = last.price

====
